---------------------------- MODULE Spec2Model ----------------------------
(***************************************************************************)
(* Model of the Express + PostgreSQL users API: the Joi schemas and the    *)
(* validate middleware, the five request handlers, the resource access     *)
(* layer with the users table behind it, and the error handler.            *)
(*                                                                         *)
(* Text values are sequences of one-character strings, so that trimming,   *)
(* length rules, e-mail syntax and number parsing are computed.  A JS      *)
(* object is a function from the keys it has to their values; a key that   *)
(* reads as undefined is a key outside the DOMAIN.                         *)
(***************************************************************************)
EXTENDS Integers, Sequences, FiniteSets, TLC

(***************************************************************************)
(* Bounds of the model.                                                    *)
(***************************************************************************)
\* the number of requests the clients send in one behaviour
MaxRequests == 2

(***************************************************************************)
(* Text helpers.                                                           *)
(***************************************************************************)
Digits == <<"0", "1", "2", "3", "4", "5", "6", "7", "8", "9">>

Empty == [k \in {} |-> <<>>]

Null == [null |-> TRUE]

Restrict(f, K) == [k \in (DOMAIN f) \cap K |-> f[k]]

RECURSIVE TrimLeft(_)
TrimLeft(s) == IF s # <<>> /\ Head(s) = " " THEN TrimLeft(Tail(s)) ELSE s

RECURSIVE TrimRight(_)
TrimRight(s) ==
  IF s # <<>> /\ s[Len(s)] = " " THEN TrimRight(SubSeq(s, 1, Len(s) - 1)) ELSE s

\* String.prototype.trim as Joi's string().trim() applies it when converting
Trim(s) == TrimRight(TrimLeft(s))

IsDigit(c) == \E i \in 1..Len(Digits) : Digits[i] = c

DigitVal(c) == (CHOOSE i \in 1..Len(Digits) : Digits[i] = c) - 1

IsDigits(s) == s # <<>> /\ \A i \in 1..Len(s) : IsDigit(s[i])

RECURSIVE ToNat(_)
ToNat(s) ==
  IF s = <<>> THEN 0 ELSE 10 * ToNat(SubSeq(s, 1, Len(s) - 1)) + DigitVal(s[Len(s)])

\* the top-level domains of the IANA list that the inputs of the model use
Tlds == { <<"c", "o", "m">> }

AtPositions(s) == { i \in 1..Len(s) : s[i] = "@" }

DotPositions(s) == { i \in 1..Len(s) : s[i] = "." }

\* Joi string().email(): one "@", a non-empty local part, a domain of at
\* least two non-empty segments whose last one is a known top-level domain
IsEmail(s) ==
  /\ Cardinality(AtPositions(s)) = 1
  /\ \A i \in 1..Len(s) : s[i] # " "
  /\ LET at == CHOOSE i \in AtPositions(s) : TRUE
         dom == SubSeq(s, at + 1, Len(s))
         dots == DotPositions(dom)
     IN /\ at > 1
        /\ dots # {}
        /\ \A d \in dots : d > 1 /\ d < Len(dom) /\ (d + 1) \notin dots
        /\ LET last == CHOOSE d \in dots : \A e \in dots : e <= d
           IN SubSeq(dom, last + 1, Len(dom)) \in Tlds

(***************************************************************************)
(* Schema definitions (validators/userValidator.js).                       *)
(***************************************************************************)
NameMin == 2
NameMax == 255
EmailMax == 255
PageMin == 1
PageDefault == 1
LimitMin == 1
LimitMax == 100
LimitDefault == 10

\* the outcome of validating one key: the messages of the violated rules and
\* the normalized value
Field(errs, present, val) == [errors |-> errs, present |-> present, value |-> val]

SeqIf(cond, msg) == IF cond THEN <<msg>> ELSE <<>>

\* name: Joi.string().trim().min(2).max(255) [.required()]
NameRule(obj, required, emptyMsg) ==
  IF "name" \notin DOMAIN obj
  THEN Field(SeqIf(required, "Name is required"), FALSE, <<>>)
  ELSE LET v == Trim(obj["name"])
       IN IF v = <<>>
          THEN Field(<<emptyMsg>>, TRUE, v)
          ELSE Field(SeqIf(Len(v) < NameMin, "Name must be at least 2 characters")
                     \o SeqIf(Len(v) > NameMax, "Name must not exceed 255 characters"),
                     TRUE, v)

\* email: Joi.string().trim().email().max(255) [.required()]
EmailRule(obj, required, emptyMsg) ==
  IF "email" \notin DOMAIN obj
  THEN Field(SeqIf(required, "Email is required"), FALSE, <<>>)
  ELSE LET v == Trim(obj["email"])
       IN IF v = <<>>
          THEN Field(<<emptyMsg>>, TRUE, v)
          ELSE Field(SeqIf(~IsEmail(v), "Please provide a valid email address")
                     \o SeqIf(Len(v) > EmailMax, "Email must not exceed 255 characters"),
                     TRUE, v)

\* the value of an object schema: the known keys that are present, normalized
\* (stripUnknown drops every other key)
ObjectValue(n, e) ==
  [k \in (IF n.present THEN {"name"} ELSE {}) \cup (IF e.present THEN {"email"} ELSE {})
     |-> IF k = "name" THEN n.value ELSE e.value]

Result(errs, val) == [error |-> errs # <<>>, errors |-> errs, value |-> val]

createUserSchema(obj) ==
  LET n == NameRule(obj, TRUE, "Name is required")
      e == EmailRule(obj, TRUE, "Email is required")
  IN Result(n.errors \o e.errors, ObjectValue(n, e))

updateUserSchema(obj) ==
  LET n == NameRule(obj, FALSE, "Name cannot be empty")
      e == EmailRule(obj, FALSE, "Email cannot be empty")
      v == ObjectValue(n, e)
  IN Result(n.errors \o e.errors
            \o SeqIf(Cardinality(DOMAIN v) < 1,
                     "At least one field (name or email) must be provided"),
            v)

\* Joi.number() on a key of the query string or the path: the text is
\* converted to a number when it is numeric (the inputs of the model are
\* unsigned and have no fraction, so the integer rule has nothing to reject)
NumberRule(obj, key, label, lo, hi, hasMax) ==
  IF key \notin DOMAIN obj THEN Field(<<>>, FALSE, 0)
  ELSE IF ~IsDigits(obj[key])
       THEN Field(<<label \o " must be a number">>, TRUE, 0)
       ELSE LET v == ToNat(obj[key])
            IN Field(SeqIf(v < lo, label \o " must be at least 1")
                     \o SeqIf(hasMax /\ v > hi, label \o " must not exceed 100"),
                     TRUE, v)

paginationSchema(obj) ==
  LET p == NumberRule(obj, "page", "Page", PageMin, 0, FALSE)
      l == NumberRule(obj, "limit", "Limit", LimitMin, LimitMax, TRUE)
  IN Result(p.errors \o l.errors,
            [page |-> IF p.present THEN p.value ELSE PageDefault,
             limit |-> IF l.present THEN l.value ELSE LimitDefault])

idParamSchema(obj) ==
  IF "id" \notin DOMAIN obj THEN Result(<<"ID is required">>, Empty)
  ELSE IF ~IsDigits(obj["id"]) THEN Result(<<"ID must be a number">>, Empty)
  ELSE LET v == ToNat(obj["id"])
       IN Result(SeqIf(v <= 0, "ID must be a positive number"), [id |-> v])

\* schema.validate(req[source], {abortEarly: false, stripUnknown: true})
SchemaValidate(schema, obj) ==
  CASE schema = "createUserSchema" -> createUserSchema(obj)
    [] schema = "updateUserSchema" -> updateUserSchema(obj)
    [] schema = "paginationSchema" -> paginationSchema(obj)
    [] schema = "idParamSchema" -> idParamSchema(obj)


(***************************************************************************)
(* The requests the clients send.                                          *)
(***************************************************************************)
sAl == <<"A", "l">>
sBo == <<"B", "o">>
sA == <<"A">>
eA == <<"a", "@", "x", ".", "c", "o", "m">>
eB == <<"b", "@", "x", ".", "c", "o", "m">>
eBad == <<"a", "@">>
Pad(s) == <<" ">> \o s \o <<" ">>

Request(op, params, query, body) ==
  [op |-> op, params |-> params, query |-> query, body |-> body]

CreateBodies ==
  { [name |-> sAl, email |-> eA],
    [name |-> Pad(sAl), email |-> Pad(eA), role |-> <<"x">>],
    [name |-> sA, email |-> eBad] }

UpdateBodies ==
  { [name |-> sBo], [email |-> eB], Empty, [role |-> <<"x">>], [email |-> eBad] }

Queries == { Empty, [page |-> <<"2">>, limit |-> <<"1">>], [page |-> <<"a", "b", "c">>] }

Requests ==
  { Request("create", Empty, Empty, b) : b \in CreateBodies }
  \cup { Request("update", [id |-> <<"1">>], Empty, b) : b \in UpdateBodies }
  \cup { Request("update", [id |-> <<"x">>], Empty, [name |-> sBo]) }
  \cup { Request("get", [id |-> i], Empty, Empty) : i \in {<<"1">>, <<"x">>} }
  \cup { Request("delete", [id |-> i], Empty, Empty) : i \in {<<"1">>, <<"x">>} }
  \cup { Request("list", Empty, q, Empty) : q \in Queries }
  \cup { Request("unmatched", Empty, Empty, Empty) }

\* the values of NODE_ENV the model runs under
Postures == {"production", "unset"}

(***************************************************************************)
(* State.                                                                  *)
(***************************************************************************)
VARIABLES
  hasUpdatedAt,   \* whether the users table has the updated_at column
  nodeEnv,        \* process.env.NODE_ENV
  users,          \* the rows of the users table
  idSeq,          \* the last value users_id_seq handed out
  now,            \* the clock NOW() reads
  reqs,           \* the requests received so far, in order of arrival
  tableExists,    \* whether the database has a users table
  proc            \* the server process: startServer, the listener, the pool

vars == <<hasUpdatedAt, nodeEnv, users, idSeq, now, reqs, tableExists, proc>>

(***************************************************************************)
(* Failures and responses.                                                 *)
(***************************************************************************)
\* class AppError of the controller: message, statusCode, name
AppError(message, statusCode) ==
  [name |-> "AppError", message |-> message, statusCode |-> statusCode,
   stack |-> "AppError: " \o message]

\* class AppError of utils/AppError.js, which the model layer throws
UtilAppError(message, statusCode) ==
  [name |-> "Error", message |-> message, statusCode |-> statusCode,
   stack |-> "Error: " \o message]

\* the error pool.query rejects with when the storage refuses a statement
DatabaseError(code, message) ==
  [name |-> "error", code |-> code, message |-> message, stack |-> "error: " \o message]

SetKey(obj, key, val) ==
  [k \in DOMAIN obj \cup {key} |-> IF k = key THEN val ELSE obj[k]]

Response(status, body) == [status |-> status, body |-> body]

handleResponse(statusCode, message, data) ==
  Response(statusCode,
           [success |-> statusCode >= 200 /\ statusCode < 300,
            message |-> message, data |-> data])

(***************************************************************************)
(* The users table (data/createUserTable.js) and the statements the        *)
(* resource access layer sends.  A statement runs atomically in the        *)
(* storage engine; it yields the rows it returns or the error it raises,   *)
(* and the table and sequence it leaves behind.                            *)
(***************************************************************************)
VarcharMax == 255

Ok(rows, table, seq) == [err |-> Null, rows |-> rows, users |-> table, idSeq |-> seq]

Fail(err, table, seq) == [err |-> err, rows |-> <<>>, users |-> table, idSeq |-> seq]

\* CREATE TABLE users: id SERIAL, created_at (and updated_at, where the
\* table has the column) DEFAULT NOW()
NewRow(id, name, email, withUpdatedAt, clock) ==
  IF withUpdatedAt
  THEN [id |-> id, name |-> name, email |-> email, created_at |-> clock, updated_at |-> clock]
  ELSE [id |-> id, name |-> name, email |-> email, created_at |-> clock]

\* email VARCHAR(255) NOT NULL UNIQUE: the value is taken by a row other than
\* the one being written
EmailTaken(table, email, exceptId) ==
  \E u \in table : u.email = email /\ u.id # exceptId

TooLong(userData) ==
  \E k \in DOMAIN userData : Len(userData[k]) > VarcharMax

UniqueViolation ==
  DatabaseError("23505", "duplicate key value violates unique constraint users_email_key")

\* the insert into a table whose email column is not UNIQUE
InsertUserNotUnique(table, seq, withUpdatedAt, clock, name, email) ==
  LET row == NewRow(seq + 1, name, email, withUpdatedAt, clock)
  IN Ok(<<row>>, table \cup {row}, seq + 1)

\* the insert that numbers the new row after the rows the table holds
InsertUserCountingRows(table, seq, withUpdatedAt, clock, name, email) ==
  LET id == Cardinality(table) + 1
  IN IF EmailTaken(table, email, 0) THEN Fail(UniqueViolation, table, seq)
     ELSE LET row == NewRow(id, name, email, withUpdatedAt, clock)
          IN Ok(<<row>>, table \cup {row}, seq + 1)

\* INSERT INTO users (name, email) VALUES ($1, $2) RETURNING *
\* (nextval is drawn before the constraints are checked, so a refused
\* insert consumes an id as well)
InsertUser(table, seq, withUpdatedAt, clock, name, email) ==
  LET id == seq + 1
  IN IF TooLong([name |-> name, email |-> email])
     THEN Fail(DatabaseError("22001", "value too long for type character varying(255)"),
               table, id)
     ELSE IF EmailTaken(table, email, id)
     THEN Fail(UniqueViolation, table, id)
     ELSE LET row == NewRow(id, name, email, withUpdatedAt, clock)
          IN Ok(<<row>>, table \cup {row}, id)

InvalidInteger ==
  DatabaseError("22P02", "invalid input syntax for type integer")

RowsById(table, idText) == { u \in table : u.id = ToNat(idText) }

AsSeq(S) == IF S = {} THEN <<>> ELSE <<CHOOSE u \in S : TRUE>>

\* SELECT * FROM users WHERE id = $1
SelectUser(table, seq, idText) ==
  IF ~IsDigits(idText) THEN Fail(InvalidInteger, table, seq)
  ELSE Ok(AsSeq(RowsById(table, idText)), table, seq)

\* the assignment list without its trailing updated_at = NOW()
SetFieldsOnly(u, userData, clock) ==
  [k \in DOMAIN u |-> IF k \in DOMAIN userData THEN userData[k] ELSE u[k]]

\* UPDATE users SET <fields>, updated_at = NOW() WHERE id = $n RETURNING *
SetFields(u, userData, clock) ==
  [k \in DOMAIN u |->
     IF k \in DOMAIN userData THEN userData[k]
     ELSE IF k = "updated_at" THEN clock
     ELSE u[k]]

UpdateUser(table, seq, withUpdatedAt, clock, idText, userData) ==
  IF ~withUpdatedAt
  THEN Fail(DatabaseError("42703", "column updated_at of relation users does not exist"),
            table, seq)
  ELSE IF ~IsDigits(idText) THEN Fail(InvalidInteger, table, seq)
  ELSE IF RowsById(table, idText) = {} THEN Ok(<<>>, table, seq)
  ELSE LET old == CHOOSE u \in RowsById(table, idText) : TRUE
           new == SetFields(old, userData, clock)
       IN IF TooLong(userData)
          THEN Fail(DatabaseError("22001", "value too long for type character varying(255)"),
                    table, seq)
          ELSE IF "email" \in DOMAIN userData /\ EmailTaken(table, userData["email"], old.id)
          THEN Fail(UniqueViolation, table, seq)
          ELSE Ok(<<new>>, (table \ {old}) \cup {new}, seq)

\* the delete that returns the row and leaves it in the table
DeleteUserKeepsRow(table, seq, idText) ==
  IF ~IsDigits(idText) THEN Fail(InvalidInteger, table, seq)
  ELSE Ok(AsSeq(RowsById(table, idText)), table, seq)

\* DELETE FROM users WHERE id = $1 RETURNING *
DeleteUser(table, seq, idText) ==
  IF ~IsDigits(idText) THEN Fail(InvalidInteger, table, seq)
  ELSE Ok(AsSeq(RowsById(table, idText)), table \ RowsById(table, idText), seq)

\* ORDER BY created_at DESC
RECURSIVE NewestFirst(_)
NewestFirst(S) ==
  IF S = {} THEN <<>>
  ELSE LET top == CHOOSE u \in S : \A w \in S : w.created_at <= u.created_at
       IN <<top>> \o NewestFirst(S \ {top})

Min(a, b) == IF a < b THEN a ELSE b

\* SELECT * FROM users ORDER BY created_at DESC LIMIT $1 OFFSET $2
\* (a parameter that is not a number is refused)
SelectPage(table, seq, limit, offset) ==
  IF limit.nan \/ offset.nan THEN Fail(InvalidInteger, table, seq)
  ELSE LET all == NewestFirst(table)
       IN Ok(SubSeq(all, offset.val + 1, Min(Len(all), offset.val + limit.val)), table, seq)

\* SELECT COUNT(*) FROM users
SelectCount(table, seq) == Ok(<<[count |-> Cardinality(table)]>>, table, seq)

(***************************************************************************)
(* Error classification (middlewares/errorHandle.js).                      *)
(***************************************************************************)
\* the classification that looks at the name of the failure before its code
ClassifyNameFirst(err) ==
  LET code == IF "code" \in DOMAIN err THEN err["code"] ELSE ""
  IN CASE err["name"] = "ValidationError" ->
            [statusCode |-> 400, message |-> "Validation Error"]
       [] err["name"] = "UnauthorizedError" ->
            [statusCode |-> 401, message |-> "Unauthorized Access"]
       [] err["name"] \notin {"ValidationError", "UnauthorizedError"} /\ code = "23505" ->
            [statusCode |-> 409, message |-> "Duplicate entry - Resource already exists"]
       [] err["name"] \notin {"ValidationError", "UnauthorizedError"} /\ code = "23503" ->
            [statusCode |-> 400, message |-> "Invalid reference - Related resource not found"]
       [] err["name"] \notin {"ValidationError", "UnauthorizedError"} /\ code = "22P02" ->
            [statusCode |-> 400, message |-> "Invalid data format"]
       [] OTHER ->
            [statusCode |-> IF "statusCode" \in DOMAIN err THEN err["statusCode"] ELSE 500,
             message |-> IF err["message"] # "" THEN err["message"]
                         ELSE "Internal Server Error"]

\* the classification with the unique-violation case left out
ClassifyNoDuplicate(err) ==
  [statusCode |-> IF "statusCode" \in DOMAIN err THEN err["statusCode"] ELSE 500,
   message |-> err["message"]]

Classify(err) ==
  LET statusCode == IF "statusCode" \in DOMAIN err /\ err["statusCode"] # 0
                    THEN err["statusCode"] ELSE 500
      message == IF "message" \in DOMAIN err /\ err["message"] # ""
                 THEN err["message"] ELSE "Internal Server Error"
      code == IF "code" \in DOMAIN err THEN err["code"] ELSE ""
      name == IF "name" \in DOMAIN err THEN err["name"] ELSE ""
  IN CASE code = "23505" ->
            [statusCode |-> 409, message |-> "Duplicate entry - Resource already exists"]
       [] code = "23503" ->
            [statusCode |-> 400, message |-> "Invalid reference - Related resource not found"]
       [] code = "22P02" ->
            [statusCode |-> 400, message |-> "Invalid data format"]
       [] code \notin {"23505", "23503", "22P02"} /\ name = "ValidationError" ->
            [statusCode |-> 400, message |-> "Validation Error"]
       [] code \notin {"23505", "23503", "22P02"} /\ name = "UnauthorizedError" ->
            [statusCode |-> 401, message |-> "Unauthorized Access"]
       [] OTHER -> [statusCode |-> statusCode, message |-> message]

\* the handler that shows diagnostics only when NODE_ENV is "development"
ErrorDataInDevelopment(err, env) ==
  IF env = "development" THEN [error |-> err["message"], stack |-> err["stack"]]
  ELSE Null

\* data of an error response: null in production, the failure's own message
\* and stack otherwise
ErrorData(err, env) ==
  IF env = "production" THEN Null
  ELSE [error |-> err["message"], stack |-> err["stack"]]

\* the handler that reports the stack in a field of its own
errorHandlerWithErrorField(err, env) ==
  Response(Classify(err).statusCode,
           [success |-> FALSE, message |-> Classify(err).message,
            error |-> err["stack"], data |-> ErrorData(err, env)])

errorHandler(err, env) ==
  LET c == Classify(err)
  IN Response(c.statusCode,
              [success |-> FALSE, message |-> c.message, data |-> ErrorData(err, env)])

notFoundHandler(originalUrl) ==
  Response(404, [success |-> FALSE,
                 message |-> "Route " \o originalUrl \o " not found",
                 data |-> Null])

(***************************************************************************)
(* One request in the server: what arrived, what the middlewares and the   *)
(* handler have done with it so far, and what was answered.                *)
(***************************************************************************)
Fresh(input) ==
  [input |-> input,
   validated |-> Empty,   \* req.validated
   handler |-> FALSE,     \* the controller has been entered
   call |-> Null,         \* what the controller handed to the service
   pending |-> {},        \* the statements sent to the pool and not yet run
   got |-> Empty,         \* the results of the statements that ran
   queries |-> 0,         \* the number of statements sent to the pool
   after |-> {},          \* the requests answered before this one arrived
   among |-> {},          \* the requests in flight when its last statement ran
   saw |-> {},            \* the table that statement found
   err |-> Null,          \* the failure forwarded to the error handler
   res |-> Null,          \* the response sent
   sent |-> 0]            \* the number of responses written

\* res.status(..).json(..): the first response is the one the client gets
Send(req, response) ==
  IF req.sent = 0 THEN [req EXCEPT !.res = response, !.sent = 1]
  ELSE [req EXCEPT !.sent = @ + 1]

\* next(error): the error handler answers
Forward(req, err, env) == Send([req EXCEPT !.err = err], errorHandler(err, env))

\* a statement is handed to pool.query
Issue(req, call, stmts) ==
  [req EXCEPT !.call = call, !.pending = stmts, !.queries = @ + Cardinality(stmts)]

(***************************************************************************)
(* The validation gate (middlewares/validate.js).                          *)
(***************************************************************************)
\* the gate answering 422 Unprocessable Entity
GateStatusUnprocessable == 400 + 22

GateStatus == 400

\* the gate without the return in front of its response: it answers and
\* goes on to the next stage all the same
validateWithoutReturn(schema, source, req) ==
  LET r == SchemaValidate(schema, req.input[source])
  IN IF r.error
     THEN [next |-> TRUE,
           req |-> Send(req, Response(GateStatus,
                                      [success |-> FALSE, message |-> "Validation failed",
                                       errors |-> r.errors]))]
     ELSE [next |-> TRUE,
           req |-> [req EXCEPT !.validated = SetKey(@, source, r.value)]]

validate(schema, source, req) ==
  LET r == SchemaValidate(schema, req.input[source])
  IN IF r.error
     THEN [next |-> FALSE,
           req |-> Send(req, Response(GateStatus,
                                      [success |-> FALSE, message |-> "Validation failed",
                                       errors |-> r.errors]))]
     ELSE [next |-> TRUE,
           req |-> [req EXCEPT !.validated = SetKey(@, source, r.value)]]

\* routes/user.route.js: the gates in front of each handler
Gates(op) ==
  CASE op = "list" -> << <<"paginationSchema", "query">> >>
    [] op = "create" -> << <<"createUserSchema", "body">> >>
    [] op = "get" -> << <<"idParamSchema", "params">> >>
    [] op = "update" -> << <<"idParamSchema", "params">>, <<"updateUserSchema", "body">> >>
    [] op = "delete" -> << <<"idParamSchema", "params">> >>

RECURSIVE RunGates(_, _)
RunGates(gates, req) ==
  IF gates = <<>> THEN [next |-> TRUE, req |-> req]
  ELSE LET g == validate(Head(gates)[1], Head(gates)[2], req)
       IN IF g.next THEN RunGates(Tail(gates), g.req) ELSE g

(***************************************************************************)
(* Request handlers (controllers/userController.js) and the resource       *)
(* access layer (models/userModel.js), up to the statement they await.     *)
(***************************************************************************)
Num(n) == [nan |-> FALSE, val |-> n]

NaN == [nan |-> TRUE, val |-> 0]

RECURSIVE DigitPrefix(_)
DigitPrefix(s) ==
  IF s # <<>> /\ IsDigit(Head(s)) THEN <<Head(s)>> \o DigitPrefix(Tail(s)) ELSE <<>>

\* parseInt of a query-string value
parseInt(s) ==
  LET d == DigitPrefix(TrimLeft(s))
  IN IF d = <<>> THEN NaN ELSE Num(ToNat(d))

Falsy(obj, key) == key \notin DOMAIN obj \/ obj[key] = <<>>

createUser(req, env) ==
  LET body == req.input.body
      entered == [req EXCEPT !.handler = TRUE]
  IN IF Falsy(body, "name") \/ Falsy(body, "email")
     THEN Forward(entered, AppError("Name and email are required", 400), env)
     ELSE Issue(entered,
                [fn |-> "createUserService",
                 userData |-> [name |-> body["name"], email |-> body["email"]]],
                {"insert"})

getAllUsers(req, env) ==
  LET query == req.input.query
      page == IF "page" \in DOMAIN query THEN parseInt(query["page"]) ELSE Num(1)
      limit == IF "limit" \in DOMAIN query THEN parseInt(query["limit"]) ELSE Num(10)
  IN Issue([req EXCEPT !.handler = TRUE],
           [fn |-> "getAllUsersService", page |-> page, limit |-> limit],
           {"page", "count"})

getUserById(req, env) ==
  Issue([req EXCEPT !.handler = TRUE],
        [fn |-> "getUserByIdService", id |-> req.input.params["id"]],
        {"select"})

\* the catch block of updateUser: the status is chosen by the message text
MapUpdateError(err) ==
  IF err["message"] = "Email already exists" THEN SetKey(err, "statusCode", 409)
  ELSE IF err["message"] = "User not found" THEN SetKey(err, "statusCode", 404)
  ELSE IF err["message"] = "No fields to update" THEN SetKey(err, "statusCode", 400)
  ELSE err

\* updateUserService builds the assignment list from the fields that are not
\* undefined and refuses an empty list before any statement is sent
updateUser(req, env) ==
  LET userData == Restrict(req.input.body, {"name", "email"})
      entered == [req EXCEPT !.handler = TRUE,
                             !.call = [fn |-> "updateUserService",
                                       id |-> req.input.params["id"],
                                       userData |-> userData]]
  IN IF DOMAIN userData = {}
     THEN Forward(entered, MapUpdateError(UtilAppError("No fields to update", 400)), env)
     ELSE Issue(entered, entered.call, {"update"})

deleteUser(req, env) ==
  Issue([req EXCEPT !.handler = TRUE],
        [fn |-> "deleteUserService", id |-> req.input.params["id"]],
        {"delete"})

Handle(req, env) ==
  CASE req.input.op = "list" -> getAllUsers(req, env)
    [] req.input.op = "create" -> createUser(req, env)
    [] req.input.op = "get" -> getUserById(req, env)
    [] req.input.op = "update" -> updateUser(req, env)
    [] req.input.op = "delete" -> deleteUser(req, env)

\* the path of a request from its arrival to its first suspension point:
\* the gates of its route, then the handler when every gate called next
Dispatch(input, env) ==
  IF input.op = "unmatched"
  THEN Send(Fresh(input), notFoundHandler("/api/v2/users"))
  ELSE LET g == RunGates(Gates(input.op), Fresh(input))
       IN IF g.next THEN Handle(g.req, env) ELSE g.req

(***************************************************************************)
(* The handlers after the awaited statement has run.                       *)
(***************************************************************************)
Settle(req) == [req EXCEPT !.pending = {}]

createUserDone(req, result, env) ==
  IF result.err # Null THEN Forward(Settle(req), result.err, env)
  ELSE Send(Settle(req), handleResponse(201, "User created successfully", result.rows[1]))

\* the handler that forwards the missing row and goes on to answer 200
getUserByIdDoneFallingThrough(req, result, env) ==
  IF result.err # Null THEN Forward(Settle(req), result.err, env)
  ELSE IF result.rows = <<>>
  THEN Send(Forward(Settle(req), AppError("User not found", 404), env),
            handleResponse(200, "User retrieved successfully", Null))
  ELSE Send(Settle(req), handleResponse(200, "User retrieved successfully", result.rows[1]))

getUserByIdDone(req, result, env) ==
  IF result.err # Null THEN Forward(Settle(req), result.err, env)
  ELSE IF result.rows = <<>>
  THEN Forward(Settle(req), AppError("User not found", 404), env)
  ELSE Send(Settle(req), handleResponse(200, "User retrieved successfully", result.rows[1]))

updateUserDone(req, result, env) ==
  IF result.err # Null THEN Forward(Settle(req), MapUpdateError(result.err), env)
  ELSE IF result.rows = <<>>
  THEN Forward(Settle(req), MapUpdateError(UtilAppError("User not found", 404)), env)
  ELSE Send(Settle(req), handleResponse(200, "User updated successfully", result.rows[1]))

deleteUserDone(req, result, env) ==
  IF result.err # Null THEN Forward(Settle(req), result.err, env)
  ELSE IF result.rows = <<>>
  THEN Forward(Settle(req), AppError("User not found", 404), env)
  ELSE Send(Settle(req), handleResponse(200, "User deleted successfully", result.rows[1]))

\* the division rounded down
FloorDiv(total, limit) == IF limit = 0 THEN 0 ELSE total \div limit

\* Math.ceil(total / limit)
CeilDiv(total, limit) == IF limit = 0 THEN 0 ELSE (total + limit - 1) \div limit

\* getAllUsersService after Promise.all: it rejects with the first failure,
\* and resolves when both reads have returned
getAllUsersDone(req, stmt, result, env) ==
  LET left == req.pending \ {stmt}
      got == SetKey(req.got, stmt, result.rows)
      after == [req EXCEPT !.pending = left, !.got = got]
  IN IF req.sent > 0 THEN after   \* Promise.all had already rejected
     ELSE IF result.err # Null THEN Forward(after, result.err, env)
     ELSE IF left # {} THEN after
     ELSE LET total == got["count"][1].count
          IN Send(after,
                  handleResponse(200, "Users retrieved successfully",
                                 [users |-> got["page"], total |-> total,
                                  page |-> req.call.page.val, limit |-> req.call.limit.val,
                                  totalPages |-> CeilDiv(total, req.call.limit.val)]))

(***************************************************************************)
(* The server process (index.js): startServer creates the table, probes    *)
(* the database and listens; a termination signal closes the listener,     *)
(* and once the listener has closed the pool is ended and the process      *)
(* exits.                                                                  *)
(***************************************************************************)
\* the startup that listens without waiting for the table or the probe
startServerFireAndForget ==
  [phase |-> "Ready", awaiting |-> {"createUserTable"}, accepting |-> TRUE,
   creates |-> 0, createFailed |-> FALSE, probed |-> FALSE, probeFailed |-> FALSE,
   signals |-> 0, closers |-> 0, drained |-> {}, pool |-> "open", poolEnds |-> 0,
   others |-> 0, queue |-> <<>>, faults |-> {}, code |-> 0]

\* startServer up to its first await: CREATE TABLE IF NOT EXISTS is in the
\* pool, nothing listens
startServer ==
  [phase |-> "Initializing", awaiting |-> {"createUserTable"}, accepting |-> FALSE,
   creates |-> 0, createFailed |-> FALSE, probed |-> FALSE, probeFailed |-> FALSE,
   signals |-> 0, closers |-> 0, drained |-> {}, pool |-> "open", poolEnds |-> 0,
   others |-> 0, queue |-> <<>>, faults |-> {}, code |-> 0]

\* process.exit(code)
exit(p, code) ==
  [p EXCEPT !.phase = "Stopped", !.code = code, !.accepting = FALSE, !.awaiting = {}]

\* createUserTable settles: its catch logs a failure and returns, so
\* startServer goes on to the probe either way
createUserTableDone(p, ok) ==
  [p EXCEPT !.creates = @ + 1, !.createFailed = ~ok, !.awaiting = {"probe"}]

\* SELECT current_database() settles: a failure exits with code 1, a success
\* mounts the routes, listens and installs the signal handlers
probeDone(p, ok) ==
  IF ok
  THEN [p EXCEPT !.probed = TRUE, !.awaiting = {}, !.phase = "Ready", !.accepting = TRUE]
  ELSE exit([p EXCEPT !.probeFailed = TRUE], 1)

\* the shutdown that ends the pool as soon as the signal arrives
gracefulShutdownEndingPool(p, inflight) ==
  [p EXCEPT !.signals = @ + 1, !.accepting = FALSE, !.phase = "Draining",
            !.drained = IF p.signals = 0 THEN inflight ELSE @,
            !.pool = "ending", !.poolEnds = @ + 1]

\* gracefulShutdown(signal): server.close stops the listener and keeps its
\* callback for the close event
gracefulShutdown(p, inflight) ==
  [p EXCEPT !.signals = @ + 1, !.accepting = FALSE, !.phase = "Draining",
            !.drained = IF p.signals = 0 THEN inflight ELSE @,
            !.closers = @ + 1]

\* the close event: every callback kept for it calls pool.end(), and the
\* pool starts ending at the first call (a further call is rejected, which
\* the unhandledRejection handler logs)
serverClosed(p) ==
  [p EXCEPT !.closers = 0, !.poolEnds = @ + p.closers, !.pool = "ending",
            !.faults = IF p.poolEnds + p.closers > 1
                       THEN @ \cup {"unhandledRejection"} ELSE @]

\* the pool that never finishes ending
poolEndedNever(p) == p

\* pool.end() resolved: process.exit(0)
poolEnded(p) == exit([p EXCEPT !.pool = "ended"], 0)

\* process.on("uncaughtException"): logs the error and exits with code 1
uncaughtException(p) == exit([p EXCEPT !.faults = @ \cup {"uncaughtException"}], 1)

\* process.on("unhandledRejection"): logs the reason and returns
unhandledRejection(p) == [p EXCEPT !.faults = @ \cup {"unhandledRejection"}]

\* max: the connections the pool lends at one time
PoolMax == 20

\* the pool that has no connect timeout
NoConnectionTimeout == 5000 - 5000

\* connectionTimeoutMillis: how long pool.query waits for a connection
ConnectionTimeoutMillis == 5000

\* the pool that always has a connection to lend
isFullNever(borrowed) == FALSE

\* the pool has lent as many connections as it may
isFull(borrowed) == borrowed >= PoolMax

\* pool.query(statement) with `borrowed` connections lent: the statement
\* gets a connection of its own, or waits in the queue behind the waiters
poolQuery(p, borrowed, item) ==
  IF isFull(borrowed) \/ p.queue # <<>> THEN [p EXCEPT !.queue = Append(@, item)]
  ELSE p

\* the statements request i hands to pool.query before its first await:
\* one, or the page query and then the count query of Promise.all
poolQueries(p, borrowed, i, stmts) ==
  LET first == IF "page" \in stmts THEN poolQuery(p, borrowed, <<i, "page">>) ELSE p
      lent == IF "page" \in stmts /\ first.queue = p.queue THEN borrowed + 1 ELSE borrowed
      rest == stmts \ {"page"}
  IN IF rest = {} THEN first
     ELSE poolQuery(first, lent, <<i, CHOOSE stmt \in rest : TRUE>>)

\* the failure pool.query rejects with when no connection came in time
TimeoutError ==
  [name |-> "Error", message |-> "timeout exceeded when trying to connect",
   stack |-> "Error: timeout exceeded when trying to connect"]

\* the process after a startup in which both steps succeeded
Serving == probeDone(createUserTableDone(startServer, TRUE), TRUE)

(***************************************************************************)
(* Actions.  A request arrives and runs to its first suspension point;     *)
(* each statement it awaits then runs in the storage engine, in any order  *)
(* relative to the statements of the other requests, and the handler       *)
(* resumes with its outcome.  The clock is read by the statements that     *)
(* write a row, and has moved on whenever the next one reads it.           *)
(***************************************************************************)
\* the users an earlier run of the server may have left in the table
SeedUsers == << [name |-> sAl, email |-> eA], [name |-> sBo, email |-> eB] >>

\* the table after the first n of them were inserted, one per clock tick
RECURSIVE Seeded(_, _)
Seeded(n, withUpdatedAt) ==
  IF n = 0 THEN Ok(<<>>, {}, 0)
  ELSE LET before == Seeded(n - 1, withUpdatedAt)
       IN InsertUser(before.users, before.idSeq, withUpdatedAt, n,
                     SeedUsers[n]["name"], SeedUsers[n]["email"])

\* the server is ready: the table exists, with or without the updated_at
\* column, and holds what earlier runs left in it
Init ==
  /\ hasUpdatedAt \in BOOLEAN
  /\ nodeEnv \in Postures
  /\ \E n \in 0..Len(SeedUsers) :
       /\ users = Seeded(n, hasUpdatedAt).users
       /\ idSeq = Seeded(n, hasUpdatedAt).idSeq
       /\ now = n + 1
  /\ reqs = <<>>
  /\ tableExists = TRUE
  /\ proc = Serving

\* the statements that wait for a connection
Waiting == { proc.queue[k] : k \in 1..Len(proc.queue) }

\* a statement of request i has a connection of the pool of a process that
\* has not exited
Awaiting(i, stmt) ==
  /\ i \in 1..Len(reqs)
  /\ stmt \in reqs[i].pending
  /\ proc.phase # "Stopped"
  /\ <<i, stmt>> \notin Waiting

\* a statement on users is refused while the database has no such table
Storage(result) ==
  IF tableExists THEN result
  ELSE Fail(DatabaseError("42P01", "relation users does not exist"), users, idSeq)

\* the storage engine ran a statement: its table, its sequence, the clock
Commit(result) ==
  /\ users' = result.users
  /\ idSeq' = result.idSeq
  /\ now' = IF result.users # users THEN now + 1 ELSE now
  /\ UNCHANGED <<hasUpdatedAt, nodeEnv, tableExists, proc>>

\* bookkeeping for the properties: which requests were answered, and which
\* were waiting for a statement, when a request arrived or had a statement run
Answered == { k \in 1..Len(reqs) : reqs[k].pending = {} }

InFlight == { k \in 1..Len(reqs) : reqs[k].pending # {} }

Ran(req) == [req EXCEPT !.among = InFlight, !.saw = users]

\* what the router makes of each request on arrival, under each posture
Arrival == [input \in Requests |-> [env \in Postures |-> Dispatch(input, env)]]

Receive(input) ==
  /\ proc.accepting
  /\ Len(reqs) < MaxRequests
  /\ reqs' = Append(reqs, [Arrival[input][nodeEnv] EXCEPT !.after = Answered])
  /\ UNCHANGED <<hasUpdatedAt, nodeEnv, users, idSeq, now, tableExists, proc>>

Insert(i) ==
  /\ Awaiting(i, "insert")
  /\ LET data == reqs[i].call.userData
         result == Storage(InsertUser(users, idSeq, hasUpdatedAt, now, data["name"], data["email"]))
     IN /\ Commit(result)
        /\ reqs' = [reqs EXCEPT ![i] = Ran(createUserDone(@, result, nodeEnv))]

Select(i) ==
  /\ Awaiting(i, "select")
  /\ LET result == Storage(SelectUser(users, idSeq, reqs[i].call.id))
     IN /\ Commit(result)
        /\ reqs' = [reqs EXCEPT ![i] = Ran(getUserByIdDone(@, result, nodeEnv))]

Update(i) ==
  /\ Awaiting(i, "update")
  /\ LET result == Storage(UpdateUser(users, idSeq, hasUpdatedAt, now,
                                      reqs[i].call.id, reqs[i].call.userData))
     IN /\ Commit(result)
        /\ reqs' = [reqs EXCEPT ![i] = Ran(updateUserDone(@, result, nodeEnv))]

Delete(i) ==
  /\ Awaiting(i, "delete")
  /\ LET result == Storage(DeleteUser(users, idSeq, reqs[i].call.id))
     IN /\ Commit(result)
        /\ reqs' = [reqs EXCEPT ![i] = Ran(deleteUserDone(@, result, nodeEnv))]

\* the offset that skips the requested page as well
OffsetPastPage(page, limit) ==
  IF page.nan \/ limit.nan THEN NaN ELSE Num(page.val * limit.val)

\* offset = (page - 1) * limit
Offset(page, limit) ==
  IF page.nan \/ limit.nan THEN NaN ELSE Num((page.val - 1) * limit.val)

ReadPage(i) ==
  /\ Awaiting(i, "page")
  /\ LET call == reqs[i].call
         result == Storage(SelectPage(users, idSeq, call.limit, Offset(call.page, call.limit)))
     IN /\ Commit(result)
        /\ reqs' = [reqs EXCEPT ![i] = Ran(getAllUsersDone(@, "page", result, nodeEnv))]

ReadCount(i) ==
  /\ Awaiting(i, "count")
  /\ LET result == Storage(SelectCount(users, idSeq))
     IN /\ Commit(result)
        /\ reqs' = [reqs EXCEPT ![i] = Ran(getAllUsersDone(@, "count", result, nodeEnv))]

(***************************************************************************)
(* The error handler on its own: any failure a handler may pass to next,   *)
(* under any posture.                                                      *)
(***************************************************************************)
FailureNames ==
  {"Error", "AppError", "error", "TypeError", "ValidationError", "UnauthorizedError"}

FailureMessages == {"", "User not found", "connect ECONNREFUSED 10.0.0.5:5432"}

FailureCodes == {"23505", "23503", "22P02", "42703"}

FailureStatuses == {400, 404, 409}

Failures ==
  LET Base == [name : FailureNames, message : FailureMessages,
               stack : {"at Client.query (pg/lib/client.js)"}]
  IN Base
     \cup { SetKey(b, "statusCode", c) : b \in Base, c \in FailureStatuses }
     \cup { SetKey(b, "code", c) : b \in Base, c \in FailureCodes }
     \cup { SetKey(SetKey(b, "statusCode", c), "code", d) :
              b \in Base, c \in FailureStatuses, d \in FailureCodes }

\* a handler caught the failure and is about to call next with it
Thrown(err) ==
  [Fresh(Request("get", [id |-> <<"1">>], Empty, Empty))
     EXCEPT !.handler = TRUE, !.err = err, !.pending = {"next"}]

InitClassify ==
  /\ hasUpdatedAt = TRUE
  /\ nodeEnv \in {"production", "development", "unset"}
  /\ users = {}
  /\ idSeq = 0
  /\ now = 1
  /\ \E err \in Failures : reqs = <<Thrown(err)>>
  /\ tableExists = TRUE
  /\ proc = Serving

ErrorHandler(i) ==
  /\ Awaiting(i, "next")
  /\ reqs' = [reqs EXCEPT ![i] = Forward(Settle(@), @.err, nodeEnv)]
  /\ UNCHANGED <<hasUpdatedAt, nodeEnv, users, idSeq, now, tableExists, proc>>

NextClassify == \E i \in 1..MaxRequests : ErrorHandler(i)

SpecClassify == InitClassify /\ [][NextClassify]_vars

(***************************************************************************)
(* Two failures that differ at most in their message text, thrown to the   *)
(* catch block of the same route: getUserById's, which passes the failure  *)
(* on as it is, or updateUser's.                                           *)
(***************************************************************************)
\* the await of a handler threw err and its catch block is about to run
Caught(op, err) ==
  [Fresh(Request(op, [id |-> <<"1">>], Empty, Empty))
     EXCEPT !.handler = TRUE, !.got = [thrown |-> err], !.pending = {"catch"}]

InitCatch ==
  /\ hasUpdatedAt = TRUE
  /\ nodeEnv \in Postures
  /\ users = {}
  /\ idSeq = 0
  /\ now = 1
  /\ \E op \in {"get", "update"}, err \in Failures, message \in FailureMessages :
       reqs = << Caught(op, err), Caught(op, [err EXCEPT !["message"] = message]) >>
  /\ tableExists = TRUE
  /\ proc = Serving

\* catch (error) { ...; next(error) } and the error handler's answer
Catch(i) ==
  /\ Awaiting(i, "catch")
  /\ LET thrown == reqs[i].got["thrown"]
         err == IF reqs[i].input.op = "update" THEN MapUpdateError(thrown) ELSE thrown
     IN reqs' = [reqs EXCEPT ![i] = Forward(Settle(@), err, nodeEnv)]
  /\ UNCHANGED <<hasUpdatedAt, nodeEnv, users, idSeq, now, tableExists, proc>>

NextCatch == \E i \in 1..MaxRequests : Catch(i)

SpecCatch == InitCatch /\ [][NextCatch]_vars

(***************************************************************************)
(* The life of the process: startup against a database that may or may    *)
(* not have the table yet, requests while it listens, termination signals. *)
(***************************************************************************)
\* the number of termination signals sent in one behaviour
MaxSignals == 2

LifeRequests ==
  { Request("create", Empty, Empty, [name |-> sAl, email |-> eA]),
    Request("get", [id |-> <<"1">>], Empty, Empty),
    Request("delete", [id |-> <<"1">>], Empty, Empty) }

\* the requests that were accepted and have no answer yet
Unanswered == { k \in 1..Len(reqs) : reqs[k].sent = 0 }

InitLife ==
  /\ nodeEnv \in Postures
  /\ \/ tableExists = FALSE /\ hasUpdatedAt = FALSE
     \/ tableExists = TRUE /\ hasUpdatedAt \in BOOLEAN
  /\ users = {}
  /\ idSeq = 0
  /\ now = 1
  /\ reqs = <<>>
  /\ proc = startServer

\* CREATE TABLE IF NOT EXISTS users ran: it made the table as createUserTable
\* declares it unless there was one, or it failed
CreateTable(ok) ==
  /\ "createUserTable" \in proc.awaiting
  /\ proc.phase # "Stopped"
  /\ tableExists' = (tableExists \/ ok)
  /\ hasUpdatedAt' = (tableExists /\ hasUpdatedAt)
  /\ proc' = createUserTableDone(proc, ok)
  /\ UNCHANGED <<nodeEnv, users, idSeq, now, reqs>>

Probe(ok) ==
  /\ "probe" \in proc.awaiting
  /\ proc.phase # "Stopped"
  /\ proc' = probeDone(proc, ok)
  /\ UNCHANGED <<hasUpdatedAt, nodeEnv, users, idSeq, now, reqs, tableExists>>

\* SIGTERM or SIGINT reaches a process whose handlers are installed
Signal ==
  /\ proc.phase \in {"Ready", "Draining"}
  /\ proc.signals < MaxSignals
  /\ proc' = gracefulShutdown(proc, Unanswered)
  /\ UNCHANGED <<hasUpdatedAt, nodeEnv, users, idSeq, now, reqs, tableExists>>

\* the listener has stopped and the last connection has ended
Closed ==
  /\ proc.phase = "Draining"
  /\ proc.closers > 0
  /\ Unanswered = {}
  /\ proc' = serverClosed(proc)
  /\ UNCHANGED <<hasUpdatedAt, nodeEnv, users, idSeq, now, reqs, tableExists>>

PoolEnded ==
  /\ proc.phase = "Draining"
  /\ proc.pool = "ending"
  /\ proc' = poolEnded(proc)
  /\ UNCHANGED <<hasUpdatedAt, nodeEnv, users, idSeq, now, reqs, tableExists>>

NextLife ==
  \/ \E ok \in BOOLEAN : CreateTable(ok)
  \/ \E ok \in BOOLEAN : Probe(ok)
  \/ \E input \in LifeRequests : Receive(input)
  \/ \E i \in 1..MaxRequests : Insert(i)
  \/ \E i \in 1..MaxRequests : Select(i)
  \/ \E i \in 1..MaxRequests : Delete(i)
  \/ Signal
  \/ Closed
  \/ PoolEnded

SpecLife == InitLife /\ [][NextLife]_vars

\* the database answers every statement it was sent, the listener closes
\* once its connections have ended, and the pool finishes ending
Progress ==
  /\ \A i \in 1..MaxRequests :
       WF_vars(Insert(i)) /\ WF_vars(Select(i)) /\ WF_vars(Delete(i))
  /\ WF_vars(Closed)
  /\ WF_vars(PoolEnded)

SpecShutdown == SpecLife /\ Progress

(***************************************************************************)
(* The same life with faults that escape every handler: an exception       *)
(* thrown outside any try block, a promise rejected with no handler.       *)
(***************************************************************************)
UncaughtException ==
  /\ proc.phase # "Stopped"
  /\ "uncaughtException" \notin proc.faults
  /\ proc' = uncaughtException(proc)
  /\ UNCHANGED <<hasUpdatedAt, nodeEnv, users, idSeq, now, reqs, tableExists>>

UnhandledRejection ==
  /\ proc.phase # "Stopped"
  /\ "unhandledRejection" \notin proc.faults
  /\ proc' = unhandledRejection(proc)
  /\ UNCHANGED <<hasUpdatedAt, nodeEnv, users, idSeq, now, reqs, tableExists>>

NextFault ==
  \/ NextLife
  \/ UncaughtException
  \/ UnhandledRejection

SpecFault == InitLife /\ [][NextFault]_vars

(***************************************************************************)
(* The pool under load: other clients of the same pool hold all but a few  *)
(* of its connections, so a statement may have to wait for one, and the   *)
(* wait ends when a connection is handed over or the connect timeout      *)
(* fires.                                                                  *)
(***************************************************************************)
\* the most connections the other clients leave free
MaxFree == 2

PoolRequests ==
  { Request("list", Empty, Empty, Empty),
    Request("get", [id |-> <<"1">>], Empty, Empty) }

\* the statements that hold a connection
Held ==
  UNION { { <<i, stmt>> : stmt \in reqs[i].pending } : i \in 1..Len(reqs) } \ Waiting

\* the connections the pool has lent: to the other clients, to statements
\* of the requests, to the statements of the startup
Borrowed == proc.others + Cardinality(Held) + Cardinality(proc.awaiting)

\* the handler of the request resumes with the outcome of a statement
Resume(req, stmt, result, env) ==
  CASE stmt = "insert" -> createUserDone(req, result, env)
    [] stmt = "select" -> getUserByIdDone(req, result, env)
    [] stmt = "update" -> updateUserDone(req, result, env)
    [] stmt = "delete" -> deleteUserDone(req, result, env)
    [] OTHER -> getAllUsersDone(req, stmt, result, env)

InitPool ==
  /\ hasUpdatedAt = FALSE
  /\ nodeEnv = "unset"
  /\ users = Seeded(1, hasUpdatedAt).users
  /\ idSeq = 1
  /\ now = 2
  /\ reqs = <<>>
  /\ tableExists = TRUE
  /\ \E n \in (PoolMax - MaxFree)..PoolMax : proc = [Serving EXCEPT !.others = n]

\* a request arrives and hands its statements to pool.query
ReceivePooled(input) ==
  /\ proc.accepting
  /\ Len(reqs) < MaxRequests
  /\ LET req == [Arrival[input][nodeEnv] EXCEPT !.after = Answered]
     IN /\ reqs' = Append(reqs, req)
        /\ proc' = poolQueries(proc, Borrowed, Len(reqs) + 1, req.pending)
  /\ UNCHANGED <<hasUpdatedAt, nodeEnv, users, idSeq, now, tableExists>>

\* a connection came back and goes to the statement that waited longest
Acquire ==
  /\ proc.queue # <<>>
  /\ ~isFull(Borrowed)
  /\ proc' = [proc EXCEPT !.queue = Tail(@)]
  /\ UNCHANGED <<hasUpdatedAt, nodeEnv, users, idSeq, now, reqs, tableExists>>

\* the connect timeout of the statement that waited longest fires:
\* pool.query rejects and the handler resumes in its catch
Timeout ==
  /\ ConnectionTimeoutMillis > 0
  /\ proc.queue # <<>>
  /\ LET i == Head(proc.queue)[1]
         stmt == Head(proc.queue)[2]
     IN reqs' = [reqs EXCEPT ![i] = Resume(@, stmt, Fail(TimeoutError, users, idSeq), nodeEnv)]
  /\ proc' = [proc EXCEPT !.queue = Tail(@)]
  /\ UNCHANGED <<hasUpdatedAt, nodeEnv, users, idSeq, now, tableExists>>

\* another client returns its connection
OtherReturn ==
  /\ proc.others > PoolMax - MaxFree
  /\ proc' = [proc EXCEPT !.others = @ - 1]
  /\ UNCHANGED <<hasUpdatedAt, nodeEnv, users, idSeq, now, reqs, tableExists>>

\* another client borrows a connection nobody waits for
OtherBorrow ==
  /\ proc.others < PoolMax
  /\ proc.queue = <<>>
  /\ ~isFull(Borrowed)
  /\ proc' = [proc EXCEPT !.others = @ + 1]
  /\ UNCHANGED <<hasUpdatedAt, nodeEnv, users, idSeq, now, reqs, tableExists>>

NextPool ==
  \/ \E input \in PoolRequests : ReceivePooled(input)
  \/ Acquire
  \/ Timeout
  \/ OtherReturn
  \/ OtherBorrow
  \/ \E i \in 1..MaxRequests : Select(i)
  \/ \E i \in 1..MaxRequests : ReadPage(i)
  \/ \E i \in 1..MaxRequests : ReadCount(i)

\* the database answers every statement that has a connection, and the
\* timer of a waiting statement fires unless a connection came first
PoolProgress ==
  /\ \A i \in 1..MaxRequests :
       WF_vars(Select(i)) /\ WF_vars(ReadPage(i)) /\ WF_vars(ReadCount(i))
  /\ WF_vars(Acquire)
  /\ WF_vars(Timeout)

SpecPool == InitPool /\ [][NextPool]_vars /\ PoolProgress

(***************************************************************************)
(* One client that sends the end-to-end sequence, each request after the   *)
(* answer to the one before, to a server whose table was just created.     *)
(***************************************************************************)
sAlice == <<"A", "l", "i", "c", "e">>
sAlicia == <<"A", "l", "i", "c", "i", "a">>
eAlice == <<"a", "l", "i", "c", "e", "@", "x", ".", "c", "o", "m">>

Firsts == { [name |-> sAlice, email |-> eAlice], [name |-> sAl, email |-> eA],
            [name |-> sBo, email |-> eB] }

Renames == { sAlicia, sBo }

Scenario(first, rename) ==
  << Request("create", Empty, Empty, first),
     Request("create", Empty, Empty, first),
     Request("get", [id |-> <<"1">>], Empty, Empty),
     Request("update", [id |-> <<"1">>], Empty, [name |-> rename]),
     Request("delete", [id |-> <<"1">>], Empty, Empty),
     Request("get", [id |-> <<"1">>], Empty, Empty) >>

InitScenario ==
  /\ hasUpdatedAt \in BOOLEAN
  /\ nodeEnv \in Postures
  /\ users = {}
  /\ idSeq = 0
  /\ now = 1
  /\ reqs = <<>>
  /\ tableExists = TRUE
  /\ proc = Serving

\* the client sends the next request of the sequence once every request it
\* sent has its answer
Sequential(first, rename) ==
  LET script == Scenario(first, rename)
  IN /\ proc.accepting
     /\ Len(reqs) < Len(script)
     /\ \A k \in 1..Len(reqs) : reqs[k].pending = {} /\ reqs[k].input = script[k]
     /\ reqs' = Append(reqs, [Dispatch(script[Len(reqs) + 1], nodeEnv)
                                EXCEPT !.after = Answered])
     /\ UNCHANGED <<hasUpdatedAt, nodeEnv, users, idSeq, now, tableExists, proc>>

NextScenario ==
  \/ \E first \in Firsts : \E rename \in Renames : Sequential(first, rename)
  \/ \E i \in 1..Len(reqs) : Insert(i)
  \/ \E i \in 1..Len(reqs) : Select(i)
  \/ \E i \in 1..Len(reqs) : Update(i)
  \/ \E i \in 1..Len(reqs) : Delete(i)

SpecScenario == InitScenario /\ [][NextScenario]_vars

Next ==
  \/ \E input \in Requests : Receive(input)
  \/ \E i \in 1..MaxRequests : Insert(i)
  \/ \E i \in 1..MaxRequests : Select(i)
  \/ \E i \in 1..MaxRequests : Update(i)
  \/ \E i \in 1..MaxRequests : Delete(i)
  \/ \E i \in 1..MaxRequests : ReadPage(i)
  \/ \E i \in 1..MaxRequests : ReadCount(i)

Spec == Init /\ [][Next]_vars

(***************************************************************************)
(* Properties.                                                             *)
(***************************************************************************)
Idx == 1..Len(reqs)

\* the request has its answer and waits for nothing
IsDone(i) == reqs[i].sent > 0 /\ reqs[i].pending = {}

Status(i) == reqs[i].res.status

\* the request sent a statement that writes
Writes(i) == reqs[i].input.op \in {"create", "update", "delete"} /\ reqs[i].queries > 0

\* i and j are creates with the same email, the insert of i ran while j was
\* in flight, and it found no row with that email
RacingCreates(i, j) ==
  /\ i # j
  /\ reqs[i].input.op = "create" /\ reqs[j].input.op = "create"
  /\ reqs[i].queries > 0 /\ reqs[j].queries > 0
  /\ reqs[i].input.body["email"] = reqs[j].input.body["email"]
  /\ reqs[i].pending = {}
  /\ j \in reqs[i].among
  /\ ~EmailTaken(reqs[i].saw, reqs[i].input.body["email"], 0)
  /\ \A k \in Idx \ {i, j} : ~Writes(k)

\* C1: of two concurrent creates with the same email, sent when no row holds
\* it and with no other writer around, the one whose insert runs first is
\* answered 201 and the other 409: never both 201, never both refused
C1_OneCreateWins ==
  \A i \in Idx : \A j \in Idx :
    RacingCreates(i, j) =>
      /\ IsDone(i) /\ Status(i) = 201
      /\ IsDone(j) => Status(j) = 409

C1_Witness ==
  \E i \in Idx : \E j \in Idx :
    /\ RacingCreates(i, j)
    /\ IsDone(i) /\ Status(i) = 201
    /\ IsDone(j) /\ Status(j) = 409

\* C2: no two rows of the users table hold the same email
C2_EmailUnique ==
  \A u \in users : \A w \in users : u.email = w.email => u = w

\* a write was refused by the constraint while the table held several rows
C2_Witness ==
  /\ Cardinality(users) >= 2
  /\ \E i \in Idx :
       /\ Writes(i) /\ IsDone(i)
       /\ reqs[i].err # Null
       /\ "code" \in DOMAIN reqs[i].err
       /\ reqs[i].err["code"] = "23505"

\* the request was turned away by a gate of its route
GateRejected(i) == reqs[i].input.op # "unmatched" /\ ~reqs[i].handler /\ reqs[i].sent > 0

IsErrorResponse(i) == reqs[i].sent > 0 /\ ~reqs[i].res.body.success

Recognized == {"23505", "23503", "22P02"}

HasCode(err, codes) == "code" \in DOMAIN err /\ err["code"] \in codes

\* a failure with no status of its own, no recognized storage code and no
\* recognized name
IsFault(err) ==
  /\ "statusCode" \notin DOMAIN err
  /\ ~HasCode(err, Recognized)
  /\ err["name"] \notin {"ValidationError", "UnauthorizedError"}

Handled(i) == reqs[i].sent > 0 /\ reqs[i].err # Null

\* C4 as stated: a fault is answered 500 "Internal Server Error", and in
\* production nothing of the failure is in the response
C4_FaultIsOpaque ==
  \A i \in Idx :
    Handled(i) /\ IsFault(reqs[i].err) =>
      /\ Status(i) = 500
      /\ reqs[i].res.body.message = "Internal Server Error"
      /\ nodeEnv = "production" => reqs[i].res.body.data = Null

\* a failure the application raised with a status of its own
AppRaised(err) ==
  /\ "statusCode" \in DOMAIN err
  /\ "code" \notin DOMAIN err
  /\ err["name"] \in {"AppError", "Error"}
  /\ err["message"] # ""

Answers(i, status, message) ==
  Status(i) = status /\ reqs[i].res.body.message = message

\* C5: the error handler answers an application failure with its own status
\* and message, 23505 with 409, 23503 and 22P02 with 400, each with its
\* fixed message
C5_ClassificationTable ==
  \A i \in Idx :
    Handled(i) =>
      LET err == reqs[i].err
      IN /\ AppRaised(err) => Answers(i, err["statusCode"], err["message"])
         /\ HasCode(err, {"23505"}) =>
              Answers(i, 409, "Duplicate entry - Resource already exists")
         /\ HasCode(err, {"23503"}) =>
              Answers(i, 400, "Invalid reference - Related resource not found")
         /\ HasCode(err, {"22P02"}) => Answers(i, 400, "Invalid data format")

\* a foreign-key violation that also carries a name the handler knows
C5_Witness ==
  \E i \in Idx :
    /\ Handled(i)
    /\ HasCode(reqs[i].err, {"23503"})
    /\ reqs[i].err["name"] = "ValidationError"
    /\ Answers(i, 400, "Invalid reference - Related resource not found")

\* the requests some gate of their route refuses as they arrive
Violating ==
  { input \in Requests :
      /\ input.op # "unmatched"
      /\ \E g \in 1..Len(Gates(input.op)) :
           LET gate == Gates(input.op)[g]
           IN SchemaValidate(gate[1], input[gate[2]]).error }

GateViolated(i) == reqs[i].input \in Violating

\* C6: a request that violates a schema of its route is answered 400 without
\* the handler being entered or a statement being sent, and a handler is only
\* entered with every validated part of its route in the envelope
C6_GateBeforeHandler ==
  \A i \in Idx :
    /\ GateViolated(i) =>
         /\ IsDone(i) /\ Status(i) = 400
         /\ ~reqs[i].handler
         /\ reqs[i].queries = 0
    /\ reqs[i].handler /\ reqs[i].input.op # "unmatched" =>
         \A g \in 1..Len(Gates(reqs[i].input.op)) :
           Gates(reqs[i].input.op)[g][2] \in DOMAIN reqs[i].validated

\* GET /api/v1/users?page=abc was answered 400 and sent nothing to storage
C6_Witness ==
  \E i \in Idx :
    /\ reqs[i].input.op = "list"
    /\ reqs[i].input.query = [page |-> <<"a", "b", "c">>]
    /\ IsDone(i) /\ Status(i) = 400
    /\ reqs[i].queries = 0

SameId(text, n) == IsDigits(text) /\ ToNat(text) = n

\* C7 as stated: what the handler hands to the service is the normalized
\* value of the envelope
C7_HandlerUsesValidated ==
  \A i \in Idx :
    reqs[i].call # Null =>
      LET call == reqs[i].call
          v == reqs[i].validated
      IN CASE reqs[i].input.op = "create" -> call.userData = v["body"]
           [] reqs[i].input.op = "update" ->
                call.userData = v["body"] /\ SameId(call.id, v["params"].id)
           [] reqs[i].input.op \in {"get", "delete"} -> SameId(call.id, v["params"].id)
           [] reqs[i].input.op = "list" ->
                call.page = Num(v["query"].page) /\ call.limit = Num(v["query"].limit)

\* the bodies that carry neither name nor email once validated
EmptyBodies == { b \in UpdateBodies : DOMAIN updateUserSchema(b).value = {} }

EffectivelyEmpty(i) == reqs[i].input.op = "update" /\ reqs[i].input.body \in EmptyBodies

\* C8: an update with an empty effective field set is answered 400 and no
\* statement is sent for it
C8_EmptyUpdateRefused ==
  \A i \in Idx :
    EffectivelyEmpty(i) =>
      /\ IsDone(i) /\ Status(i) = 400
      /\ reqs[i].queries = 0
      /\ reqs[i].among = {}

\* PATCH /api/v1/users/1 with only an unknown field, on an existing user
C8_Witness ==
  \E i \in Idx :
    /\ EffectivelyEmpty(i)
    /\ reqs[i].input.body = [role |-> <<"x">>]
    /\ \E u \in users : SameId(reqs[i].input.params["id"], u.id)
    /\ IsDone(i) /\ Status(i) = 400

\* this step ran the update of request i and it was answered 200
UpdateSucceeds(i) ==
  /\ Awaiting(i, "update")
  /\ reqs'[i].pending = {}
  /\ reqs'[i].res.status = 200

\* C9: a successful update assigns the fields of the request and updated_at,
\* which moves strictly forward; it leaves the other columns of the row and
\* every other row as they were
C9_UpdateFrame ==
  [][\A i \in 1..MaxRequests :
       UpdateSucceeds(i) =>
         LET data == reqs[i].call.userData
             old == CHOOSE u \in users : SameId(reqs[i].call.id, u.id)
             new == CHOOSE u \in users' : SameId(reqs[i].call.id, u.id)
         IN /\ \E u \in users : SameId(reqs[i].call.id, u.id)
            /\ \A k \in DOMAIN data : new[k] = data[k]
            /\ \A k \in {"id", "name", "email", "created_at"} \ DOMAIN data :
                 new[k] = old[k]
            /\ new.updated_at > old.updated_at
            /\ users' \ {new} = users \ {old}
            /\ reqs'[i].res.body.data = new]_vars

\* an update of the name alone was answered 200 with the email the row had
\* and a later updated_at, while another row sat in the table
C9_Witness ==
  \E i \in Idx :
    /\ reqs[i].input.op = "update"
    /\ reqs[i].input.body = [name |-> sBo]
    /\ IsDone(i) /\ Status(i) = 200
    /\ Cardinality(reqs[i].saw) = 2
    /\ \E old \in reqs[i].saw :
         /\ old.id = reqs[i].res.body.data.id
         /\ old.name # reqs[i].res.body.data.name
         /\ old.email = reqs[i].res.body.data.email
         /\ old.updated_at < reqs[i].res.body.data.updated_at

\* C10 as stated: a create whose email no row holds is answered 201 with the
\* row, whose id is positive and whose created_at equals its updated_at
C10_CreateAnswer ==
  \A i \in Idx :
    /\ reqs[i].input.op = "create"
    /\ reqs[i].queries > 0 /\ reqs[i].pending = {}
    /\ ~EmailTaken(reqs[i].saw, reqs[i].call.userData["email"], 0)
    => /\ IsDone(i) /\ Status(i) = 201
       /\ reqs[i].res.body.data.id > 0
       /\ "updated_at" \in DOMAIN reqs[i].res.body.data
       /\ reqs[i].res.body.data.created_at = reqs[i].res.body.data["updated_at"]


\* the statement of request i ran in this step and the request has its answer
Completes(i, stmt) == Awaiting(i, stmt) /\ reqs'[i].pending = {} /\ reqs'[i].sent > 0

\* C11: an id is never reused or mutated: every id in the table came from
\* the sequence, the sequence never moves back, a row that enters the table
\* has an id above every value the sequence handed out before (the ids of
\* deleted rows and of refused inserts among them), a row keeps its id for
\* as long as it is in the table, and no two rows share an id
C11_IdsNeverReused ==
  [][/\ idSeq' >= idSeq
     /\ \A u \in users : u.id >= 1 /\ u.id <= idSeq
     /\ \A w \in users' :
          (\A u \in users : u.created_at # w.created_at) => w.id > idSeq
     /\ \A u \in users : \A w \in users' : u.created_at = w.created_at => u.id = w.id
     /\ \A w \in users' : \A x \in users' : w.id = x.id => w = x]_vars

\* a create was answered with an id that skips the ids of a deleted row or of
\* a refused insert
C11_Witness ==
  \E i \in Idx :
    /\ reqs[i].input.op = "create"
    /\ IsDone(i) /\ Status(i) = 201
    /\ \A u \in reqs[i].saw : u.id < reqs[i].res.body.data.id
    /\ reqs[i].res.body.data.id > Cardinality(reqs[i].saw) + 1

\* the statement of the request ran, with an id the gate let through
RanById(i, op) ==
  /\ reqs[i].input.op = op
  /\ reqs[i].queries > 0 /\ reqs[i].pending = {}

Target(i) == RowsById(reqs[i].saw, reqs[i].call.id)

\* C12: a delete of an id no row has is answered 404; a delete of an existing
\* id is answered 200 with the row it removed; a GetById on that id that
\* arrives after the delete was answered gets 404
C12_DeleteThenGone ==
  /\ \A i \in Idx :
       RanById(i, "delete") =>
         /\ IsDone(i)
         /\ Target(i) = {} => Answers(i, 404, "User not found")
         /\ Target(i) # {} =>
              /\ Status(i) = 200
              /\ reqs[i].res.body.data \in Target(i)
  /\ \A i \in Idx : \A j \in Idx :
       /\ RanById(j, "delete") /\ Status(j) = 200
       /\ RanById(i, "get") /\ j \in reqs[i].after
       /\ reqs[i].call.id = reqs[j].call.id
       => Status(i) = 404

\* GET /api/v1/users/1 was answered 404 after DELETE /api/v1/users/1 was
\* answered 200
C12_Witness ==
  \E i \in Idx : \E j \in Idx :
    /\ RanById(j, "delete") /\ Status(j) = 200
    /\ RanById(i, "get") /\ j \in reqs[i].after
    /\ reqs[i].call.id = reqs[j].call.id
    /\ Status(i) = 404

\* C13 as stated: GetById and Update on an id no row has are answered 404
\* "User not found", and leave the table as it was
C13_MissingIdNotFound ==
  [][\A i \in 1..MaxRequests :
       /\ Completes(i, "select") \/ Completes(i, "update")
       /\ RowsById(users, reqs[i].call.id) = {}
       => /\ reqs'[i].res.status = 404
          /\ reqs'[i].res.body.message = "User not found"
          /\ users' = users]_vars

\* the update gives the row an email that another row holds
Collides(i) ==
  /\ "email" \in DOMAIN reqs[i].call.userData
  /\ RowsById(users, reqs[i].call.id) # {}
  /\ EmailTaken(users, reqs[i].call.userData["email"], ToNat(reqs[i].call.id))

\* C14 as stated: an update to an email another row holds is answered 409
\* by its one statement, and the table is left as it was
C14_UpdateConflict ==
  [][\A i \in 1..MaxRequests :
       Completes(i, "update") /\ Collides(i) =>
         /\ reqs'[i].res.status = 409
         /\ reqs'[i].queries = 1
         /\ users' = users]_vars

\* a list request that was answered with a page
Listed(i) == reqs[i].input.op = "list" /\ IsDone(i) /\ Status(i) = 200

\* C15: in every list result totalPages is the least number of pages of
\* limit rows that hold total rows, and the page has at most limit rows
C15_PageArithmetic ==
  \A i \in Idx :
    Listed(i) =>
      LET data == reqs[i].res.body.data
      IN /\ data.limit >= 1
         /\ data.totalPages * data.limit >= data.total
         /\ (data.totalPages - 1) * data.limit < data.total \/ data.totalPages = 0
         /\ data.totalPages = 0 => data.total = 0
         /\ Len(data.users) <= data.limit

\* the second page of one row each, read while another request had written
\* between the two reads
C15_Witness ==
  \E i \in Idx :
    /\ Listed(i)
    /\ reqs[i].res.body.data.limit = 1
    /\ reqs[i].res.body.data.page = 2
    /\ reqs[i].res.body.data.totalPages >= 2
    /\ Len(reqs[i].res.body.data.users) = 1
    /\ \E j \in Idx : j # i /\ Writes(j) /\ IsDone(j) /\ j \notin reqs[i].after



\* the k-th request of the sequence has its answer
Step(k) == k \in Idx /\ IsDone(k)

\* C16 as stated, in the production posture its data:null is written for:
\* the sequence create, create again, get, rename, delete, get is answered
\* 201 with id 1; 409 with data null; 200 with the record; 200 with the name
\* changed and the email unchanged; 200; 404
C16_EndToEnd ==
  nodeEnv = "production" /\ reqs # <<>> =>
    LET first == reqs[1].input.body
    IN /\ Step(1) => Status(1) = 201 /\ reqs[1].res.body.data.id = 1
       /\ Step(2) => Status(2) = 409 /\ reqs[2].res.body.data = Null
       /\ Step(3) =>
            /\ Status(3) = 200
            /\ reqs[3].res.body.data.id = 1
            /\ reqs[3].res.body.data.name = first["name"]
            /\ reqs[3].res.body.data.email = first["email"]
       /\ Step(4) =>
            /\ Status(4) = 200
            /\ reqs[4].res.body.data.name = reqs[4].input.body["name"]
            /\ reqs[4].res.body.data.email = first["email"]
       /\ Step(5) => Status(5) = 200
       /\ Step(6) => Status(6) = 404



\* C17 as stated: a startup in which the table creation or the probe failed
\* never listens, never handles a request or a signal, and ends with the
\* failure code
C17_StartupFailureFatal ==
  proc.createFailed \/ proc.probeFailed =>
    /\ ~proc.accepting
    /\ proc.phase \in {"Initializing", "Stopped"}
    /\ proc.phase = "Stopped" => proc.code = 1
    /\ reqs = <<>>
    /\ proc.signals = 0

\* C18: the table creation is run once and has settled, and the probe has
\* settled, before the server listens; no request is accepted, answered or
\* given to storage before that
C18_StartupOrder ==
  /\ proc.creates <= 1
  /\ proc.accepting \/ reqs # <<>> \/ proc.phase \in {"Ready", "Draining"} =>
       /\ proc.creates = 1
       /\ proc.probed
       /\ proc.awaiting = {}

\* a create was answered 201 by a server whose startup ran both steps
C18_Witness ==
  /\ proc.creates = 1 /\ ~proc.createFailed /\ proc.probed
  /\ \E i \in Idx : reqs[i].input.op = "create" /\ IsDone(i) /\ Status(i) = 201

\* C19: from the signal on no request is accepted, and the pool is not ended
\* before every accepted request has its answer
C19_DrainOrder ==
  [][/\ proc.signals > 0 => Len(reqs') = Len(reqs)
     /\ proc'.signals > 0 => ~proc'.accepting
     /\ proc'.pool # "open" =>
          /\ proc'.signals > 0
          /\ \A k \in 1..Len(reqs') : reqs'[k].sent > 0]_vars

\* the pool was ended after requests that were in flight at the signal got
\* their answers
C19_Witness ==
  /\ proc.pool # "open"
  /\ proc.drained # {}
  /\ \A k \in proc.drained : reqs[k].sent > 0 /\ reqs[k].res.status \in {200, 201}

\* C20: once a signal was handled in Ready, the process comes to Stopped
\* with exit code 0, the drain over and the pool ended
C20_ShutdownCompletes ==
  (proc.signals > 0) ~>
    (/\ proc.phase = "Stopped" /\ proc.code = 0
     /\ proc.pool = "ended"
     /\ Unanswered = {})

\* the process exited with code 0 after two signals and a drain of two
\* requests
C20_Witness ==
  /\ proc.phase = "Stopped" /\ proc.code = 0
  /\ proc.signals = 2
  /\ Cardinality(proc.drained) >= 2
  /\ Unanswered = {}

\* C21: once a fault has reached process scope (an uncaught exception or an
\* unhandled promise rejection) the process is Stopped with exit code 1 and
\* accepts no request
C21_FaultStopsProcess ==
  proc.faults # {} =>
    /\ proc.phase = "Stopped"
    /\ proc.code = 1
    /\ ~proc.accepting

\* the statements a request may hand to the pool
Statements == {"insert", "select", "update", "delete", "page", "count"}

\* the database runs the statement of request i that holds a connection
Runs(i, stmt) ==
  CASE stmt = "insert" -> Insert(i)
    [] stmt = "select" -> Select(i)
    [] stmt = "update" -> Update(i)
    [] stmt = "delete" -> Delete(i)
    [] stmt = "page" -> ReadPage(i)
    [] OTHER -> ReadCount(i)

C23_WaitEndsByTimeout ==
  /\ (Waiting # {}) ~> (Waiting = {})
  /\ [][\A w \in Waiting :
          w \notin Waiting' =>
            \/ w \in Held'
            \/ /\ reqs'[w[1]].err = TimeoutError
               /\ reqs'[w[1]].sent = 1
               /\ reqs'[w[1]].res = errorHandler(TimeoutError, nodeEnv)
               /\ reqs'[w[1]].res.status = 500]_vars

\* a request whose only statement found the pool exhausted was answered
\* with the timeout failure, no statement of it having run
C23_Witness ==
  \E i \in 1..Len(reqs) :
    /\ reqs[i].err = TimeoutError
    /\ reqs[i].res.status = 500
    /\ reqs[i].pending = {}
    /\ reqs[i].queries = 1
    /\ reqs[i].among = {}

\* two failures with the same structured attributes: they differ at most in
\* their message text
SameStructure(e, f) == [e EXCEPT !["message"] = ""] = [f EXCEPT !["message"] = ""]

C25_DataByPosture ==
  \A i \in Idx :
    Handled(i) =>
      LET data == reqs[i].res.body.data
      IN /\ nodeEnv = "production" => data = Null
         /\ nodeEnv # "production" =>
              /\ DOMAIN data = {"error", "stack"}
              /\ data["error"] = reqs[i].err["message"]
              /\ data["stack"] = reqs[i].err["stack"]

\* a failure with a recognized code was answered under the unset posture,
\* its own message and stack in data beside the fixed public message
C25_Witness ==
  /\ nodeEnv = "unset"
  /\ \E i \in Idx :
       /\ Handled(i)
       /\ HasCode(reqs[i].err, {"23505"})
       /\ reqs[i].err["message"] = "User not found"
       /\ reqs[i].res.body.data["error"] = "User not found"
       /\ reqs[i].res.body.message # "User not found"

\* C26: a request that reached a user route gets one response and no more:
\* the gate that answered 400 did not pass it on, the handler that was
\* entered either sent its success response or forwarded a failure, not
\* both, and a request with nothing left to wait for has its response
C26_OneResponse ==
  \A i \in Idx :
    reqs[i].input.op # "unmatched" =>
      /\ reqs[i].sent <= 1
      /\ reqs[i].pending = {} => reqs[i].sent = 1
      /\ reqs[i].sent = 1 /\ ~reqs[i].handler =>
           /\ Status(i) = 400
           /\ reqs[i].queries = 0
           /\ reqs[i].err = Null
      /\ reqs[i].sent = 1 /\ reqs[i].handler =>
           (reqs[i].err = Null) = (reqs[i].res.body.success)

\* one request was answered by the gate, another by the error handler
\* after its storage call failed, each once
C26_Witness ==
  \E i \in Idx : \E j \in Idx :
    /\ GateRejected(i) /\ reqs[i].sent = 1
    /\ reqs[j].handler /\ reqs[j].queries = 1 /\ reqs[j].pending = {}
    /\ HasCode(reqs[j].err, {"23505"})
    /\ reqs[j].sent = 1 /\ Status(j) = 409

\* C27: after a second termination signal the process still accepts
\* nothing and is Draining or Stopped, the pool is not released while a
\* request lacks its answer, the release is attempted at most once, and a
\* stopped process has exit code 0
C27_SecondSignalHarmless ==
  proc.signals >= 2 =>
    /\ ~proc.accepting
    /\ proc.phase \in {"Draining", "Stopped"}
    /\ proc.pool # "open" => Unanswered = {}
    /\ proc.poolEnds <= 1
    /\ proc.phase = "Stopped" => proc.code = 0

\* two updates of the same existing row that set disjoint fields, the
\* first of them run while the other was in flight, the email set (if any)
\* free, and no other request writing
RacingUpdates(i, j) ==
  /\ i # j
  /\ RanById(i, "update") /\ RanById(j, "update")
  /\ reqs[i].call.id = reqs[j].call.id
  /\ DOMAIN reqs[i].call.userData \cap DOMAIN reqs[j].call.userData = {}
  /\ j \in reqs[i].among
  /\ Target(i) # {}
  /\ \A k \in {i, j} :
       "email" \in DOMAIN reqs[k].call.userData =>
         ~EmailTaken(reqs[i].saw, reqs[k].call.userData["email"], ToNat(reqs[k].call.id))
  /\ \A k \in Idx \ {i, j} : ~Writes(k)

RacingOnRow(i, j) ==
  /\ i # j
  /\ \A k \in {i, j} :
       /\ RanById(k, "update") \/ RanById(k, "delete")
       /\ "userData" \in DOMAIN reqs[k].call /\ "email" \in DOMAIN reqs[k].call.userData =>
            ~EmailTaken(reqs[i].saw, reqs[k].call.userData["email"], ToNat(reqs[k].call.id))
  /\ "delete" \in {reqs[i].input.op, reqs[j].input.op}
  /\ reqs[i].call.id = reqs[j].call.id
  /\ j \in reqs[i].among
  /\ Target(i) # {}
  /\ \A k \in Idx \ {i, j} : ~Writes(k)

ExactPage(data, table) ==
  LET offset == (data.page - 1) * data.limit
      rest == IF data.total > offset THEN data.total - offset ELSE 0
  IN /\ data.total = Cardinality(table)
     /\ Len(data.users) = Min(data.limit, rest)
     /\ \A k \in 1..Len(data.users) :
          /\ data.users[k] \in table
          /\ Cardinality({ w \in table : w.created_at > data.users[k].created_at })
               = offset + k - 1

\* C30: when the second read of a list finds the table its first read
\* found (no write ran between them), the answer is exact: total is the
\* number of rows, users is the created_at-descending slice at offset
\* (page - 1) * limit, of length min(limit, max(0, total - offset))
C30_ListExact ==
  [][\A i \in 1..MaxRequests : \A stmt \in {"page", "count"} :
       Completes(i, stmt) /\ reqs[i].saw = users =>
         /\ reqs'[i].res.status = 200
         /\ ExactPage(reqs'[i].res.body.data, users)]_vars

\* the second page of one row per page was listed from a table of two
\* rows, the older row on it, while a write of another request waited
C30_Witness ==
  \E i \in Idx :
    /\ Listed(i)
    /\ reqs[i].saw = users
    /\ Cardinality(users) = 2
    /\ reqs[i].res.body.data.page = 2
    /\ reqs[i].res.body.data.limit = 1
    /\ reqs[i].res.body.data.total = 2
    /\ Len(reqs[i].res.body.data.users) = 1
    /\ \A w \in users : w.created_at >= reqs[i].res.body.data.users[1].created_at
    /\ \E j \in Idx : Writes(j) /\ reqs[j].pending # {} /\ j \in reqs[i].among

=============================================================================
